---- MODULE Spec2Model ----
(***************************************************************************)
(* Document-Similarity-Checker: the analysis job orchestrator              *)
(* (backend/app/services/analysis_service.py) together with the pipeline   *)
(* it drives (document_service, document_processor, similarity_service).   *)
(*                                                                         *)
(* Numbers: a reported similarity is an integer in units of 1/10000 (the   *)
(* code rounds it to 4 decimals); a threshold, which the caller may give   *)
(* more finely, is an integer in units of 1/100000.                        *)
(***************************************************************************)
EXTENDS Integers, Sequences, FiniteSets, TLC

\* ------------------------------------------------------------------ bounds
MaxJobs == 2          \* AnalysisResult objects created in one run of Spec
MaxClock == 1         \* last reading of the wall clock in Spec
MaxCreateJobs == 1    \* the same two bounds for CreateSpec
MaxCreateClock == 1
MaxPoolJobs == 3      \* and for PoolSpec
MaxPoolClock == 2
MaxSimDocs == 3       \* rows of a features DataFrame in SimSpec
MaxStoreJobs == 1     \* AnalysisResult objects created in one run of StoreSpec

\* ------------------------------------------------------- program constants
MaxWorkers == 2
MIN_DOCUMENTS_FOR_ANALYSIS == 2
SimScale == 10000
ThresholdScale == 10 * SimScale
min_similarity_threshold == 50000
max_similarity_threshold == 100000

WorkerIds == 1..MaxWorkers

\* ------------------------------------------------------------ input sets
\* The files a client may upload: doc id -> cleaned content (token list).
\* "the" is a stop word; d4 is a file whose text cleans to the empty string.
DocLibrary ==
    [ d1 |-> [filename |-> "a.txt", content |-> <<"the", "quick", "fox">>],
      d2 |-> [filename |-> "b.txt", content |-> <<"the", "quick", "fox">>],
      d3 |-> [filename |-> "c.txt", content |-> <<"lazy", "dog">>],
      d4 |-> [filename |-> "e.txt", content |-> << >>] ]

DocIds == DOMAIN DocLibrary

StopWords == {"the"}

\* fixed enumeration of the terms, used to index the vocabulary
TermOrder == <<"quick", "fox", "lazy", "dog">>

\* configurations a caller may pass; thresholds 0.4, 0.5, 1.0 and 1.5
Configs ==
    { [threshold |-> 40000, include_all_pairs |-> TRUE],
      [threshold |-> 50000, include_all_pairs |-> FALSE],
      [threshold |-> 70000, include_all_pairs |-> TRUE],
      [threshold |-> 100000, include_all_pairs |-> TRUE],
      [threshold |-> 150000, include_all_pairs |-> FALSE] }

\* what the document service may hold when the analysis service starts
InitialStores ==
    { << >>, <<"d1">>, <<"d1", "d2">>, <<"d3", "d4">>, <<"d1", "d3", "d4">> }


\* Optional[T]: None is the empty tuple, a value x is the one-element tuple
None == << >>
Some(x) == <<x>>
Get(o) == o[1]

\* document_ids arguments: None, or a list of ids ("d9" is never uploaded)
DocumentIdsInputs ==
    { None, Some(<< >>), Some(<<"d1">>), Some(<<"d1", "d2">>),
      Some(<<"d3", "d9">>) }

\* the inputs of the specifications that follow several jobs at once
FewDocumentIds == { None, Some(<<"d3", "d9">>) }
FewConfigs == { [threshold |-> 50000, include_all_pairs |-> FALSE] }
FullStore == <<"d1", "d2", "d3">>

\* ------------------------------------------------------------- sequences
RECURSIVE SeqSum(_)
SeqSum(s) == IF s = << >> THEN 0 ELSE Head(s) + SeqSum(Tail(s))

Range(s) == { s[i] : i \in DOMAIN s }

RECURSIVE Count(_, _)
Count(s, x) ==
    IF s = << >> THEN 0
    ELSE (IF Head(s) = x THEN 1 ELSE 0) + Count(Tail(s), x)

\* a sequence given by a rule, as the list of its elements
List(s) == s \o << >>

Min2(a, b) == IF a <= b THEN a ELSE b
Max2(a, b) == IF a >= b THEN a ELSE b


\* ------------------------------------------------- document_service (read)
\* metadata is the insertion-ordered key list of DocumentService._metadata.
get_document_count(metadata) == Len(metadata)

get_documents_for_analysis(metadata, document_ids) ==
    LET doc_ids == IF document_ids = None THEN metadata ELSE Get(document_ids)
    IN  IF Len(doc_ids) < MIN_DOCUMENTS_FOR_ANALYSIS
        THEN [ok |-> FALSE, error |-> "INSUFFICIENT_DOCUMENTS", documents |-> << >>]
        ELSE IF \E i \in DOMAIN doc_ids : doc_ids[i] \notin Range(metadata)
        THEN [ok |-> FALSE, error |-> "DOCUMENT_NOT_FOUND", documents |-> << >>]
        ELSE [ok |-> TRUE, error |-> "",
              documents |-> List([i \in DOMAIN doc_ids |->
                               [doc_id |-> doc_ids[i],
                                filename |-> DocLibrary[doc_ids[i]].filename,
                                content |-> DocLibrary[doc_ids[i]].content]])]

\* ---------------------------------------------------- document_processor
\* preprocess_text: rows whose cleaned content is empty are filtered out.
preprocess_text(documents) ==
    SelectSeq(documents, LAMBDA d : Len(d.content) > 0)

\* StopWordsRemover
filtered_words(content) == SelectSeq(content, LAMBDA w : w \notin StopWords)

\* CountVectorizer(minDF = 1): the terms that occur in at least one document
Vocabulary(docs) ==
    SelectSeq(TermOrder,
              LAMBDA t : \E i \in DOMAIN docs : t \in Range(filtered_words(docs[i].content)))

DocFreq(docs, t) ==
    Cardinality({ i \in DOMAIN docs : t \in Range(filtered_words(docs[i].content)) })

\* an IDF that weighs every term with 0
IdfWeight_AllZero(n, df) == 0

\* pyspark.ml.feature.IDF: idf = ln((N + 1) / (df + 1)), here as the nearest
\* integer to 6.5 * ln((N + 1) / (df + 1)); 0 when the term is in every document.
IdfWeight(n, df) ==
    IF df >= n THEN 0
    ELSE CASE n = 2 -> 3
           [] n = 3 -> (IF df = 1 THEN 5 ELSE 2)
           [] n = 4 -> (IF df = 1 THEN 6 ELSE IF df = 2 THEN 3 ELSE 1)
           [] OTHER -> 1

build_tfidf_pipeline(docs) ==
    LET vocab == Vocabulary(docs)
        n == Len(docs)
    IN  List([i \in DOMAIN docs |->
           [doc_id |-> docs[i].doc_id,
            filename |-> docs[i].filename,
            features |-> List([k \in DOMAIN vocab |->
                            Count(filtered_words(docs[i].content), vocab[k])
                              * IdfWeight(n, DocFreq(docs, vocab[k]))])]])

\* process_documents: preprocess, then fit and apply the TF-IDF pipeline.
process_documents(documents) ==
    LET df == preprocess_text(documents)
    IN  IF Len(df) = 0
        THEN [ok |-> FALSE, error |-> "SPARK_ERROR", features_df |-> << >>]
        ELSE IF Vocabulary(df) = << >>
        THEN [ok |-> FALSE, error |-> "SPARK_ERROR", features_df |-> << >>]
        ELSE [ok |-> TRUE, error |-> "", features_df |-> build_tfidf_pipeline(df)]

\* ---------------------------------------------------- similarity_service
\* A float similarity in [0, 1] is kept exactly as [m, exact]:
\* m = floor(ThresholdScale * value), exact = (ThresholdScale * value is an integer).
Dot(v1, v2) == SeqSum(List([k \in DOMAIN v1 |-> v1[k] * v2[k]]))

\* digits of sqrt(num / den): from (m, r) with r = num * B - m * m * den to the
\* same for B * f * f, one factor f at a time
RECURSIVE SqrtDigits(_, _, _, _)
SqrtDigits(m, r, den, fs) ==
    IF fs = << >> THEN [m |-> m, exact |-> (r = 0)]
    ELSE LET f == Head(fs)
             d == CHOOSE x \in 0..(f - 1) :
                    /\ (2 * f * m * x + x * x) * den <= f * f * r
                    /\ \A y \in (x + 1)..(f - 1) :
                          (2 * f * m * y + y * y) * den > f * f * r
         IN  SqrtDigits(f * m + d, f * f * r - (2 * f * m * d + d * d) * den,
                        den, Tail(fs))

One == [m |-> ThresholdScale, exact |-> TRUE]
Zero == [m |-> 0, exact |-> TRUE]

\* cosine_similarity without the test for a zero norm
cosine_similarity_NoZeroCase(vec1, vec2) ==
    LET dot_product == Dot(vec1, vec2)
        norm1sq == Dot(vec1, vec1)
        norm2sq == Dot(vec2, vec2)
    IN  IF dot_product * dot_product >= norm1sq * norm2sq THEN One
        ELSE SqrtDigits(0, dot_product * dot_product, norm1sq * norm2sq,
                        <<10, 10, 10, 10, 10>>)

cosine_similarity(vec1, vec2) ==
    LET dot_product == Dot(vec1, vec2)
        norm1sq == Dot(vec1, vec1)
        norm2sq == Dot(vec2, vec2)
    IN  IF norm1sq = 0 \/ norm2sq = 0 THEN Zero
        ELSE IF dot_product * dot_product >= norm1sq * norm2sq THEN One
        ELSE SqrtDigits(0, dot_product * dot_product, norm1sq * norm2sq,
                        <<10, 10, 10, 10, 10>>)

\* round(similarity, 4), ties to even; the result is in units of 1 / SimScale
Round4(sim) ==
    LET q == sim.m \div 10
        r == sim.m % 10
    IN  IF r < 5 THEN q
        ELSE IF r > 5 THEN q + 1
        ELSE IF sim.exact /\ q % 2 = 0 THEN q
        ELSE q + 1

\* similarity >= threshold, on the unrounded similarity
AtLeast(sim, threshold) == sim.m >= threshold

\* an insertion that puts x before the elements equal to it
RECURSIVE InsertDesc_BeforeEquals(_, _)
InsertDesc_BeforeEquals(sorted, x) ==
    IF sorted = << >> THEN <<x>>
    ELSE IF Head(sorted).similarity > x.similarity
         THEN <<Head(sorted)>> \o InsertDesc_BeforeEquals(Tail(sorted), x)
         ELSE <<x>> \o sorted

\* stable insertion of x into a list sorted by similarity descending
RECURSIVE InsertDesc(_, _)
InsertDesc(sorted, x) ==
    IF sorted = << >> THEN <<x>>
    ELSE IF Head(sorted).similarity >= x.similarity
         THEN <<Head(sorted)>> \o InsertDesc(Tail(sorted), x)
         ELSE <<x>> \o sorted

RECURSIVE SortDesc(_, _)
SortDesc(acc, rest) ==
    IF rest = << >> THEN acc ELSE SortDesc(InsertDesc(acc, Head(rest)), Tail(rest))

\* the inner loop starting at i instead of i + 1
RECURSIVE PairIndices_FromSelf(_, _, _)
PairIndices_FromSelf(i, j, n) ==
    IF i > n THEN << >>
    ELSE IF j > n THEN PairIndices_FromSelf(i + 1, i + 1, n)
    ELSE <<(<<i, j>>)>> \o PairIndices_FromSelf(i, j + 1, n)

\* the pairs (i, j), i < j, in the order of the nested loops
RECURSIVE PairIndices(_, _, _)
PairIndices(i, j, n) ==
    IF i > n THEN << >>
    ELSE IF j > n THEN PairIndices(i + 1, i + 2, n)
    ELSE <<(<<i, j>>)>> \o PairIndices(i, j + 1, n)

compute_pairwise_similarities(features_df, threshold, include_all_pairs) ==
    IF Len(features_df) < MIN_DOCUMENTS_FOR_ANALYSIS
    THEN [ok |-> FALSE, error |-> "PROCESSING_ERROR", similarities |-> << >>]
    ELSE LET idx == PairIndices(1, 2, Len(features_df))
             all == [k \in DOMAIN idx |->
                       LET d1 == features_df[idx[k][1]]
                           d2 == features_df[idx[k][2]]
                           similarity == cosine_similarity(d1.features, d2.features)
                       IN  [doc1_id |-> d1.doc_id, doc1_name |-> d1.filename,
                            doc2_id |-> d2.doc_id, doc2_name |-> d2.filename,
                            similarity |-> Round4(similarity),
                            flagged |-> AtLeast(similarity, threshold)]]
             kept == SelectSeq(all, LAMBDA p : include_all_pairs \/ p.flagged)
         IN  [ok |-> TRUE, error |-> "", similarities |-> SortDesc(<< >>, kept)]

\* the matrix without the case i = j
create_similarity_matrix_NoDiagonalCase(features_df) ==
    [matrix |-> List([i \in DOMAIN features_df |->
                   List([j \in DOMAIN features_df |->
                      Round4(cosine_similarity(features_df[i].features,
                                               features_df[j].features))])]),
     doc_names |-> List([i \in DOMAIN features_df |-> features_df[i].filename])]

create_similarity_matrix(features_df) ==
    [matrix |-> List([i \in DOMAIN features_df |->
                   List([j \in DOMAIN features_df |->
                      IF i = j THEN Round4(One)
                      ELSE Round4(cosine_similarity(features_df[i].features,
                                                    features_df[j].features))])]),
     doc_names |-> List([i \in DOMAIN features_df |-> features_df[i].filename])]

\* round(x / n) to the nearest integer, ties to even
RoundDiv(x, n) ==
    LET q == x \div n
        r == x % n
    IN  IF 2 * r < n THEN q
        ELSE IF 2 * r > n THEN q + 1
        ELSE IF q % 2 = 0 THEN q ELSE q + 1

RECURSIVE SeqMax(_)
SeqMax(s) == IF Len(s) = 1 THEN s[1] ELSE Max2(Head(s), SeqMax(Tail(s)))

\* a minimum that takes the first element
SeqMin_First(s) == s[1]

RECURSIVE SeqMin(_)
SeqMin(s) == IF Len(s) = 1 THEN s[1] ELSE Min2(Head(s), SeqMin(Tail(s)))

compute_statistics(similarities, total_documents) ==
    IF similarities = << >>
    THEN [total_documents |-> total_documents, total_comparisons |-> 0,
          flagged_pairs |-> 0, avg_similarity |-> 0, max_similarity |-> 0,
          min_similarity |-> 0]
    ELSE LET scores == List([k \in DOMAIN similarities |-> similarities[k].similarity])
         IN  [total_documents |-> total_documents,
              total_comparisons |-> Len(similarities),
              flagged_pairs |-> Len(SelectSeq(similarities, LAMBDA p : p.flagged)),
              avg_similarity |-> RoundDiv(SeqSum(scores), Len(scores)),
              max_similarity |-> SeqMax(scores),
              min_similarity |-> SeqMin(scores)]

\* percentage is the text of value * 100 with one decimal, kept as tenths of a percent
format_similar_pairs(similarities) ==
    List([k \in DOMAIN similarities |->
       [doc1 |-> similarities[k].doc1_name, doc2 |-> similarities[k].doc2_name,
        doc1_id |-> similarities[k].doc1_id, doc2_id |-> similarities[k].doc2_id,
        similarity |-> similarities[k].similarity,
        percentage |-> RoundDiv(similarities[k].similarity, 10),
        flagged |-> similarities[k].flagged]])

\* ------------------------------------------------------ analysis_service
\* Steps 1-6 of _perform_analysis on the documents the store holds now.
\* spark_ok = FALSE is a stage of the Spark session raising.
RunPipeline(metadata, task, spark_ok) ==
    LET failed(msg) ==
            [ok |-> FALSE, error_message |-> msg, total_documents |-> 0,
             total_comparisons |-> 0, similar_pairs |-> << >>,
             similarity_matrix |-> << >>, document_names |-> << >>,
             statistics |-> None, completed_at |-> 0]
        got == get_documents_for_analysis(metadata, task.document_ids)
        processed == process_documents(got.documents)
        pairs == compute_pairwise_similarities(processed.features_df,
                                               task.config.threshold,
                                               task.config.include_all_pairs)
        mat == create_similarity_matrix(processed.features_df)
    IN  IF ~got.ok THEN failed(got.error)
        ELSE IF ~spark_ok THEN failed("SPARK_ERROR")
        ELSE IF ~processed.ok THEN failed(processed.error)
        ELSE IF ~pairs.ok THEN failed(pairs.error)
        ELSE [ok |-> TRUE, error_message |-> "",
              total_documents |-> Len(got.documents),
              total_comparisons |-> Len(pairs.similarities),
              similar_pairs |-> format_similar_pairs(pairs.similarities),
              similarity_matrix |-> mat.matrix,
              document_names |-> mat.doc_names,
              statistics |-> Some(compute_statistics(pairs.similarities,
                                                     Len(got.documents))),
              completed_at |-> 0]

\* ------------------------------------------------------------------ state
VARIABLES
    metadata,   \* DocumentService._metadata: the stored doc ids, oldest first
    jobs,       \* AnalysisService._jobs: <<[job_id, ref]>> in insertion order
    heap,       \* the AnalysisResult objects, by reference
    queue,      \* work queue of the ThreadPoolExecutor
    worker,     \* the pool's threads and where each is in _perform_analysis
    now,        \* datetime.utcnow()
    response,   \* what the service call that has just ended returned or raised
    executions  \* history: the job ids _perform_analysis has been started for

vars == <<metadata, jobs, heap, queue, worker, now, response, executions>>

\* IDGenerator.generate_job_id: "job_" and a digest of the timestamp
generate_job_id(timestamp) == <<"job", timestamp>>

InRegistry(job_id) == \E i \in DOMAIN jobs : jobs[i].job_id = job_id
IndexOf(job_id) == (CHOOSE i \in DOMAIN jobs : jobs[i].job_id = job_id)
RefOf(job_id) == jobs[IndexOf(job_id)].ref
JobOf(job_id) == heap[RefOf(job_id)]

\* self._jobs[job_id] = job_result: a present key keeps its place in the dict
SetItem(d, job_id, ref) ==
    IF \E i \in DOMAIN d : d[i].job_id = job_id
    THEN List([i \in DOMAIN d |->
            IF d[i].job_id = job_id THEN [job_id |-> job_id, ref |-> ref] ELSE d[i]])
    ELSE Append(d, [job_id |-> job_id, ref |-> ref])

\* del self._jobs[job_id]
DelItem(d, job_id) == SelectSeq(d, LAMBDA e : e.job_id # job_id)

NoTask == [job_id |-> generate_job_id(-1), document_ids |-> None,
           config |-> [threshold |-> 0, include_all_pairs |-> FALSE]]

NoOutcome == [ok |-> FALSE, error_message |-> "", total_documents |-> 0,
              total_comparisons |-> 0, similar_pairs |-> << >>,
              similarity_matrix |-> << >>, document_names |-> << >>,
              statistics |-> None, completed_at |-> 0]

\* run is history: the call of analyze_documents (first, second, ...) whose
\* pipeline the thread is running; the executor starts them in that order
Idle == [pc |-> "idle", task |-> NoTask, status |-> "none", ref |-> 0, k |-> 0,
         outcome |-> NoOutcome, run |-> 0]

NoResponse == [kind |-> "none"]
Raised(code) == [kind |-> "error", code |-> code]

InitWith(stores) ==
    /\ metadata \in stores
    /\ jobs = << >>
    /\ heap = << >>
    /\ queue = << >>
    /\ worker = [w \in WorkerIds |-> Idle]
    /\ now = 0
    /\ response = NoResponse
    /\ executions = << >>

\* validate_threshold without its test of the upper bound
validate_threshold_NoUpperBound(threshold) ==
    IF threshold < min_similarity_threshold THEN "INVALID_THRESHOLD" ELSE ""

\* ValidationHelper.validate_threshold
validate_threshold(threshold) ==
    IF threshold < min_similarity_threshold THEN "INVALID_THRESHOLD"
    ELSE IF threshold > max_similarity_threshold THEN "INVALID_THRESHOLD"
    ELSE ""

\* validate_document_count accepting a single document
validate_document_count_OneIsEnough(count) ==
    IF count < MIN_DOCUMENTS_FOR_ANALYSIS - 1 THEN "INSUFFICIENT_DOCUMENTS" ELSE ""

\* ValidationHelper.validate_document_count
validate_document_count(count) ==
    IF count < MIN_DOCUMENTS_FOR_ANALYSIS THEN "INSUFFICIENT_DOCUMENTS" ELSE ""

\* AnalysisService.create_job, as the error it raises or the job it registers
create_job(document_ids, config) ==
    LET job_id == generate_job_id(now)
        doc_count == IF document_ids # None /\ Len(Get(document_ids)) > 0
                     THEN Len(Get(document_ids))
                     ELSE get_document_count(metadata)
    IN  IF validate_threshold(config.threshold) # ""
        THEN [ok |-> FALSE, error |-> validate_threshold(config.threshold)]
        ELSE IF validate_document_count(doc_count) # ""
        THEN [ok |-> FALSE, error |-> validate_document_count(doc_count)]
        ELSE [ok |-> TRUE, error |-> "", job_id |-> job_id,
              job_result |-> [job_id |-> job_id, status |-> "pending",
                              total_documents |-> doc_count,
                              total_comparisons |-> 0, similar_pairs |-> << >>,
                              similarity_matrix |-> << >>,
                              document_names |-> << >>, statistics |-> None,
                              error_message |-> None, created_at |-> now,
                              completed_at |-> None]]

\* AnalysisService.analyze_documents: create the job, hand it to the executor
analyze_documents(document_ids, config, max_jobs) ==
    LET c == create_job(document_ids, config)
    IN  IF ~c.ok
        THEN /\ response' = Raised(c.error)
             /\ UNCHANGED <<metadata, jobs, heap, queue, worker, now, executions>>
        ELSE /\ Len(heap) < max_jobs
             /\ heap' = Append(heap, c.job_result)
             /\ jobs' = SetItem(jobs, c.job_id, Len(heap) + 1)
             /\ queue' = Append(queue, [job_id |-> c.job_id,
                                        document_ids |-> document_ids,
                                        config |-> config])
             /\ response' = [kind |-> "job_id", job_id |-> c.job_id]
             /\ UNCHANGED <<metadata, worker, now, executions>>

\* AnalysisService.get_job_result
get_job_result(job_id) ==
    /\ response' = IF InRegistry(job_id)
                   THEN [kind |-> "job", job |-> JobOf(job_id)]
                   ELSE Raised("JOB_NOT_FOUND")
    /\ UNCHANGED <<metadata, jobs, heap, queue, worker, now, executions>>

\* the sort without reverse = True: oldest first
RECURSIVE InsertNewest_OldestFirst(_, _)
InsertNewest_OldestFirst(sorted, x) ==
    IF sorted = << >> THEN <<x>>
    ELSE IF Head(sorted).created_at <= x.created_at
         THEN <<Head(sorted)>> \o InsertNewest_OldestFirst(Tail(sorted), x)
         ELSE <<x>> \o sorted

\* jobs.sort(key = created_at, reverse = True): stable, newest first
RECURSIVE InsertNewest(_, _)
InsertNewest(sorted, x) ==
    IF sorted = << >> THEN <<x>>
    ELSE IF Head(sorted).created_at >= x.created_at
         THEN <<Head(sorted)>> \o InsertNewest(Tail(sorted), x)
         ELSE <<x>> \o sorted

RECURSIVE SortNewest(_, _)
SortNewest(acc, rest) ==
    IF rest = << >> THEN acc
    ELSE SortNewest(InsertNewest(acc, Head(rest)), Tail(rest))

\* AnalysisService.list_jobs
list_jobs ==
    /\ response' = [kind |-> "jobs",
                    jobs |-> SortNewest(<< >>, List([i \in DOMAIN jobs |-> heap[jobs[i].ref]]))]
    /\ UNCHANGED <<metadata, jobs, heap, queue, worker, now, executions>>

\* delete_job that takes an absent id for deleted
delete_job_Silent(job_id) ==
    /\ jobs' = DelItem(jobs, job_id)
    /\ response' = [kind |-> "deleted", job_id |-> job_id]
    /\ UNCHANGED <<metadata, heap, queue, worker, now, executions>>

\* AnalysisService.delete_job
delete_job(job_id) ==
    /\ IF InRegistry(job_id)
       THEN /\ jobs' = DelItem(jobs, job_id)
            /\ response' = [kind |-> "deleted", job_id |-> job_id]
       ELSE /\ response' = Raised("JOB_NOT_FOUND")
            /\ UNCHANGED jobs
    /\ UNCHANGED <<metadata, heap, queue, worker, now, executions>>

\* the wall clock moves on
Tick(max_clock) ==
    /\ now < max_clock
    /\ now' = now + 1
    /\ response' = NoResponse
    /\ UNCHANGED <<metadata, jobs, heap, queue, worker, executions>>

\* ------------------------------------------------- the executor's threads
\* the keyword arguments _perform_analysis passes with each status
Kwargs(status) ==
    CASE status = "completed" ->
           <<"total_documents", "total_comparisons", "similar_pairs",
             "similarity_matrix", "document_names", "statistics", "completed_at">>
      [] status = "failed" -> <<"error_message", "completed_at">>
      [] OTHER -> << >>

KwargValue(outcome, key) ==
    CASE key = "completed_at" -> Some(outcome.completed_at)
      [] key = "error_message" -> Some(outcome.error_message)
      [] OTHER -> outcome[key]

\* a thread of the pool takes the oldest queued call of _perform_analysis
\* (the threads are interchangeable: the idle one of lowest number takes it)
StartTask(w) ==
    /\ worker[w].pc = "idle"
    /\ \A v \in 1..(w - 1) : worker[v].pc # "idle"
    /\ queue # << >>
    /\ worker' = [worker EXCEPT ![w] = [Idle EXCEPT !.pc = "check",
                                                    !.task = Head(queue),
                                                    !.status = "processing",
                                                    !.run = Len(executions) + 1]]
    /\ queue' = Tail(queue)
    /\ response' = NoResponse
    /\ executions' = Append(executions, Head(queue).job_id)
    /\ UNCHANGED <<metadata, jobs, heap, now>>

\* where the thread goes when a call of _update_job_status returns
AfterUpdate(wr) ==
    IF wr.status = "processing" THEN [wr EXCEPT !.pc = "pipeline"] ELSE Idle

\* an exception inside the try block of _perform_analysis: the handler
\* reports the job as failed
Except(wr, msg) ==
    [wr EXCEPT !.pc = "check", !.status = "failed",
               !.outcome = [NoOutcome EXCEPT !.error_message = msg,
                                             !.completed_at = now]]

\* _update_job_status: if job_id in self._jobs
UpdateCheck(w) ==
    /\ worker[w].pc = "check"
    /\ worker' = [worker EXCEPT ![w] =
                    IF InRegistry(worker[w].task.job_id)
                    THEN [worker[w] EXCEPT !.pc = "fetch"]
                    ELSE AfterUpdate(worker[w])]
    /\ response' = NoResponse
    /\ UNCHANGED <<metadata, jobs, heap, queue, now, executions>>

\* _update_job_status: job = self._jobs[job_id]; a KeyError when the key has
\* gone since the test, which the handler of _perform_analysis catches
\* unless it is the handler's own update that raised
UpdateFetch(w) ==
    /\ worker[w].pc = "fetch"
    /\ worker' = [worker EXCEPT ![w] =
                    IF InRegistry(worker[w].task.job_id)
                    THEN [worker[w] EXCEPT !.pc = "status",
                                           !.ref = RefOf(worker[w].task.job_id)]
                    ELSE IF worker[w].status = "failed" THEN Idle
                    ELSE Except(worker[w], "KeyError")]
    /\ response' = NoResponse
    /\ UNCHANGED <<metadata, jobs, heap, queue, now, executions>>

\* _update_job_status without the assignment to job.status
UpdateStatus_NoWrite(w) ==
    /\ worker[w].pc = "status"
    /\ worker' = [worker EXCEPT ![w] =
                    IF Kwargs(worker[w].status) = << >>
                    THEN AfterUpdate(worker[w])
                    ELSE [worker[w] EXCEPT !.pc = "kwargs", !.k = 1]]
    /\ response' = NoResponse
    /\ UNCHANGED <<metadata, jobs, heap, queue, now, executions>>

\* _update_job_status: job.status = status
UpdateStatus(w) ==
    /\ worker[w].pc = "status"
    /\ heap' = [heap EXCEPT ![worker[w].ref].status = worker[w].status]
    /\ worker' = [worker EXCEPT ![w] =
                    IF Kwargs(worker[w].status) = << >>
                    THEN AfterUpdate(worker[w])
                    ELSE [worker[w] EXCEPT !.pc = "kwargs", !.k = 1]]
    /\ response' = NoResponse
    /\ UNCHANGED <<metadata, jobs, queue, now, executions>>

\* _update_job_status: setattr(job, key, value), one keyword at a time
UpdateKwarg(w) ==
    /\ worker[w].pc = "kwargs"
    /\ LET keys == Kwargs(worker[w].status)
           key == keys[worker[w].k]
       IN  /\ heap' = [heap EXCEPT ![worker[w].ref][key] =
                                     KwargValue(worker[w].outcome, key)]
           /\ worker' = [worker EXCEPT ![w] =
                           IF worker[w].k = Len(keys)
                           THEN AfterUpdate(worker[w])
                           ELSE [worker[w] EXCEPT !.k = worker[w].k + 1]]
    /\ response' = NoResponse
    /\ UNCHANGED <<metadata, jobs, queue, now, executions>>

\* _perform_analysis, steps 1 to 6: the pipeline on the stored documents
PerformAnalysis(w) ==
    /\ worker[w].pc = "pipeline"
    /\ \E spark_ok \in BOOLEAN :
         LET r == RunPipeline(metadata, worker[w].task, spark_ok)
         IN  worker' = [worker EXCEPT ![w] =
                          [worker[w] EXCEPT
                             !.pc = "check",
                             !.status = IF r.ok THEN "completed" ELSE "failed",
                             !.outcome = [r EXCEPT !.completed_at = now]]]
    /\ response' = NoResponse
    /\ UNCHANGED <<metadata, jobs, heap, queue, now, executions>>

WorkerStep(w) ==
    \/ StartTask(w)
    \/ UpdateCheck(w)
    \/ UpdateFetch(w)
    \/ UpdateStatus(w)
    \/ UpdateKwarg(w)
    \/ PerformAnalysis(w)

JobIds(max_clock) == { generate_job_id(t) : t \in 0..max_clock }

\* several jobs at once, few inputs
Init == InitWith({FullStore})

Next ==
    \/ \E ids \in FewDocumentIds, config \in FewConfigs :
         analyze_documents(ids, config, MaxJobs)
    \/ \E job_id \in JobIds(MaxClock) : get_job_result(job_id)
    \/ list_jobs
    \/ \E job_id \in JobIds(MaxClock) : delete_job(job_id)
    \/ Tick(MaxClock)
    \/ \E w \in WorkerIds : WorkerStep(w)

Spec == Init /\ [][Next]_vars

\* one job, every input
CreateInit == InitWith(InitialStores)

CreateNext ==
    \/ \E ids \in DocumentIdsInputs, config \in Configs :
         analyze_documents(ids, config, MaxCreateJobs)
    \/ \E job_id \in JobIds(MaxCreateClock) : get_job_result(job_id)
    \/ list_jobs
    \/ \E job_id \in JobIds(MaxCreateClock) : delete_job(job_id)
    \/ Tick(MaxCreateClock)
    \/ \E w \in WorkerIds : WorkerStep(w)

CreateSpec == CreateInit /\ [][CreateNext]_vars

\* more jobs than threads
PoolNext ==
    \/ \E ids \in {None}, config \in FewConfigs :
         analyze_documents(ids, config, MaxPoolJobs)
    \/ Tick(MaxPoolClock)
    \/ \E w \in WorkerIds : WorkerStep(w)

PoolSpec == Init /\ [][PoolNext]_vars

\* ------------------------------------ the similarity computer on its own
\* TF-IDF vectors over three terms; the first is a document without terms
FeatureVectors ==
    { <<0, 0, 0>>, <<1, 0, 0>>, <<1, 1, 0>>, <<1, 1, 1>>, <<2, 1, 0>> }

\* thresholds 0.5, 0.5774, 0.89442 and 1.0
SimThresholds == { 50000, 57740, 89442, 100000 }

RowIds == <<"d1", "d2", "d3", "d4">>

\* the rows (doc_id, filename, features) of a features DataFrame
FeaturesFrame(vectors) ==
    List([i \in DOMAIN vectors |->
            [doc_id |-> RowIds[i], filename |-> DocLibrary[RowIds[i]].filename,
             features |-> vectors[i]]])

FeaturesFrames ==
    { FeaturesFrame(List(vs)) :
        vs \in UNION { [1..n -> FeatureVectors] : n \in 1..MaxSimDocs } }

\* a call of SimilarityComputer.compute_pairwise_similarities followed, as
\* in _perform_analysis, by format_similar_pairs on what it returned
PairwiseCall(features_df, threshold, include_all_pairs) ==
    LET r == compute_pairwise_similarities(features_df, threshold,
                                           include_all_pairs)
    IN  /\ response = NoResponse
        /\ response' =
              IF r.ok
              THEN [kind |-> "similarities", features_df |-> features_df,
                    threshold |-> threshold,
                    include_all_pairs |-> include_all_pairs,
                    similarities |-> r.similarities,
                    similar_pairs |-> format_similar_pairs(r.similarities)]
              ELSE Raised(r.error)
        /\ UNCHANGED <<metadata, jobs, heap, queue, worker, now, executions>>

\* a call of SimilarityComputer.create_similarity_matrix
MatrixCall(features_df) ==
    LET r == create_similarity_matrix(features_df)
    IN  /\ response = NoResponse
        /\ response' = [kind |-> "matrix", features_df |-> features_df,
                        matrix |-> r.matrix, doc_names |-> r.doc_names]
        /\ UNCHANGED <<metadata, jobs, heap, queue, worker, now, executions>>

\* vectors for cosine_similarity alone: FeatureVectors and two that share
\* no term with some of them
CosineVectors == FeatureVectors \cup { <<0, 0, 1>>, <<0, 1, 2>> }

\* cosine_similarity called on a pair of vectors in both orders
CosineCall(vec1, vec2) ==
    /\ response = NoResponse
    /\ response' = [kind |-> "cosine", vec1 |-> vec1, vec2 |-> vec2,
                    similarity |-> cosine_similarity(vec1, vec2),
                    swapped |-> cosine_similarity(vec2, vec1)]
    /\ UNCHANGED <<metadata, jobs, heap, queue, worker, now, executions>>

\* pair lists for compute_statistics alone: of a pair it reads the keys
\* similarity and flagged
StatisticsScores == {0, 5774, 8944, SimScale}

StatisticsPairs == [similarity : StatisticsScores, flagged : BOOLEAN]

StatisticsLists ==
    { List(ps) : ps \in UNION { [1..n -> StatisticsPairs] : n \in 0..MaxSimDocs } }

\* a call of SimilarityComputer.compute_statistics
StatisticsCall(similarities, total_documents) ==
    /\ response = NoResponse
    /\ response' = [kind |-> "statistics", similarities |-> similarities,
                    total_documents |-> total_documents,
                    statistics |-> compute_statistics(similarities,
                                                      total_documents)]
    /\ UNCHANGED <<metadata, jobs, heap, queue, worker, now, executions>>

\* the caller takes what the call returned; it makes one call at a time
Return ==
    /\ response # NoResponse
    /\ response' = NoResponse
    /\ UNCHANGED <<metadata, jobs, heap, queue, worker, now, executions>>

SimNext ==
    \/ \E features_df \in FeaturesFrames, threshold \in SimThresholds,
          include_all_pairs \in BOOLEAN :
         PairwiseCall(features_df, threshold, include_all_pairs)
    \/ \E features_df \in FeaturesFrames : MatrixCall(features_df)
    \/ \E vec1, vec2 \in CosineVectors : CosineCall(vec1, vec2)
    \/ \E similarities \in StatisticsLists, total_documents \in 0..MaxSimDocs :
         StatisticsCall(similarities, total_documents)
    \/ Return

SimSpec == Init /\ [][SimNext]_vars

\* ------------------------------------ the document store changes meanwhile
\* the files a client uploads or deletes while jobs exist
StoreDocs == {"d1", "d2", "d3"}

\* DocumentService.upload_document: a document whose id is held already is
\* refused, any other is added to the metadata
upload_document(doc_id) ==
    /\ IF doc_id \in Range(metadata)
       THEN /\ response' = Raised("DUPLICATE_DOCUMENT")
            /\ UNCHANGED metadata
       ELSE /\ metadata' = Append(metadata, doc_id)
            /\ response' = [kind |-> "uploaded", doc_id |-> doc_id]
    /\ UNCHANGED <<jobs, heap, queue, worker, now, executions>>

\* DocumentService.delete_document
delete_document(doc_id) ==
    /\ IF doc_id \notin Range(metadata)
       THEN /\ response' = Raised("DOCUMENT_NOT_FOUND")
            /\ UNCHANGED metadata
       ELSE /\ metadata' = SelectSeq(metadata, LAMBDA d : d # doc_id)
            /\ response' = [kind |-> "document_deleted", doc_id |-> doc_id]
    /\ UNCHANGED <<jobs, heap, queue, worker, now, executions>>

StoreInit == InitWith({<<"d1", "d2">>})

StoreNext ==
    \/ \E config \in FewConfigs : analyze_documents(None, config, MaxStoreJobs)
    \/ \E doc_id \in StoreDocs : upload_document(doc_id)
    \/ \E doc_id \in StoreDocs : delete_document(doc_id)
    \/ \E w \in WorkerIds : WorkerStep(w)

StoreSpec == StoreInit /\ [][StoreNext]_vars

\* ===================================================== properties checked
Terminal == {"completed", "failed"}

ThresholdInBounds(config) ==
    /\ config.threshold >= ThresholdScale \div 2
    /\ config.threshold <= ThresholdScale

NothingRegistered ==
    /\ jobs' = jobs
    /\ heap' = heap
    /\ queue' = queue
    /\ executions' = executions

\* C7: a call of analyze_documents (hence of create_job) whose threshold lies
\* outside [0.5, 1.0] raises the invalid-threshold error, returns no job id,
\* schedules no run and leaves the registry as it was; 0.5 and 1.0 themselves
\* are accepted.
InvalidThresholdRejected ==
    [][\A ids \in DocumentIdsInputs, config \in Configs :
         analyze_documents(ids, config, MaxCreateJobs) =>
           /\ ~ThresholdInBounds(config) =>
                response' = Raised("INVALID_THRESHOLD") /\ NothingRegistered
           /\ config.threshold \in {ThresholdScale \div 2, ThresholdScale} =>
                response' # Raised("INVALID_THRESHOLD")]_vars

\* C7 happens: an invalid threshold was refused while a job was registered
InvalidThresholdSeen ==
    /\ response = Raised("INVALID_THRESHOLD")
    /\ jobs # << >>

\* C8: with a threshold in bounds, analyze_documents raises
\* InsufficientDocuments and registers nothing when document_ids is None and
\* fewer than 2 documents are stored, and when document_ids has length 1.
FewerThanTwoRejected ==
    [][\A ids \in DocumentIdsInputs, config \in Configs :
         /\ ThresholdInBounds(config)
         /\ \/ ids = None /\ Len(metadata) < 2
            \/ ids # None /\ Len(Get(ids)) = 1
         /\ analyze_documents(ids, config, MaxCreateJobs)
         => response' = Raised("INSUFFICIENT_DOCUMENTS") /\ NothingRegistered]_vars

\* C8 happens: a list of one id was refused although two documents are stored
FewerThanTwoSeen ==
    /\ response = Raised("INSUFFICIENT_DOCUMENTS")
    /\ Len(metadata) >= 2

\* C9: analyze_documents with an explicitly empty document_ids list fails at
\* creation whatever the store holds: the caller gets an error and no job is
\* registered.
EmptyListRejected ==
    [][\A config \in Configs :
         analyze_documents(Some(<< >>), config, MaxCreateJobs) =>
           response'.kind = "error" /\ NothingRegistered]_vars

\* C10: analyze_documents with a list of 2 or more ids, one of them not in the
\* store, raises the not-found error at the call and creates no job.
UnknownDocumentRejected ==
    [][\A ids \in DocumentIdsInputs, config \in Configs :
         /\ ThresholdInBounds(config)
         /\ ids # None
         /\ Len(Get(ids)) >= 2
         /\ \E i \in DOMAIN Get(ids) : Get(ids)[i] \notin Range(metadata)
         /\ analyze_documents(ids, config, MaxCreateJobs)
         => response' = Raised("DOCUMENT_NOT_FOUND") /\ NothingRegistered]_vars

\* C1: in every step, whatever else runs, a job's status either stays as it
\* is or moves pending -> processing, processing -> completed or
\* processing -> failed; a completed or failed job keeps its status for good.
StatusOnlyMovesForward ==
    [][\A r \in DOMAIN heap :
         \/ heap'[r].status = heap[r].status
         \/ heap[r].status = "pending" /\ heap'[r].status = "processing"
         \/ heap[r].status = "processing" /\ heap'[r].status \in Terminal]_vars

\* C2: _perform_analysis is started at most once for each job id, however
\* many calls of analyze_documents there are and whenever they come.
OneExecutionPerJobId ==
    \A i, j \in DOMAIN executions :
        executions[i] = executions[j] => i = j

\* a job read as completed carries the finished run's result
ObservedAsCompleted(job) ==
    job.status = "completed" =>
        /\ job.statistics # None
        /\ job.completed_at # None
        /\ job.similarity_matrix # << >>
        /\ job.document_names # << >>
        /\ Len(job.similarity_matrix) = Len(job.document_names)

\* C3: whenever get_job_result or list_jobs hands out a job whose status is
\* completed, the job carries the finished run's statistics, matrix, document
\* names and completion time.
CompletedJobsReadComplete ==
    /\ response.kind = "job" => ObservedAsCompleted(response.job)
    /\ response.kind = "jobs" =>
         \A i \in DOMAIN response.jobs : ObservedAsCompleted(response.jobs[i])

\* a job read as failed carries the error and nothing of a result
ObservedAsFailed(job) ==
    job.status = "failed" =>
        /\ job.error_message # None
        /\ job.completed_at # None
        /\ job.similar_pairs = << >>
        /\ job.similarity_matrix = << >>
        /\ job.statistics = None

\* C4: whenever get_job_result or list_jobs hands out a job whose status is
\* failed, the job has an error message and a completion time, and its
\* pairs, matrix and statistics are as they were at creation.
FailedJobsReadComplete ==
    /\ response.kind = "job" => ObservedAsFailed(response.job)
    /\ response.kind = "jobs" =>
         \A i \in DOMAIN response.jobs : ObservedAsFailed(response.jobs[i])

\* submissions, deletions and the pool, under a scheduler that lets every
\* thread that can take a step take one
FairNext ==
    \/ \E ids \in FewDocumentIds, config \in FewConfigs :
         analyze_documents(ids, config, MaxJobs)
    \/ \E job_id \in JobIds(MaxClock) : delete_job(job_id)
    \/ Tick(MaxClock)
    \/ \E w \in WorkerIds : WorkerStep(w)

FairSpec ==
    /\ Init
    /\ [][FairNext]_vars
    /\ \A w \in WorkerIds : WF_vars(WorkerStep(w))

Registered(r) == \E i \in DOMAIN jobs : jobs[i].ref = r

Settled(r) == r \in DOMAIN heap /\ heap[r].status \in Terminal

NeverBackToPending ==
    [][\A r \in DOMAIN heap :
         heap[r].status # "pending" => heap'[r].status # "pending"]_vars

\* C5 as stated: every job analyze_documents accepted is completed or failed
\* in the end, and a job that has left pending never returns to it.
EveryJobSettles ==
    /\ \A r \in 1..MaxJobs :
         (r \in DOMAIN heap) ~> Settled(r)
    /\ NeverBackToPending

\* C5 amended: every job analyze_documents accepted is in the end completed,
\* failed, or no longer the job the registry holds under its id, and a job
\* that has left pending never returns to it.
EveryJobSettlesOrLeaves ==
    /\ \A r \in 1..MaxJobs :
         (r \in DOMAIN heap) ~> (Settled(r) \/ ~Registered(r))
    /\ NeverBackToPending

\* C5 happens: a job was run to its end while another was deleted unfinished
SettledAndLeft ==
    \E r, q \in DOMAIN heap :
        /\ Registered(r)
        /\ heap[r].status \in Terminal
        /\ ~Registered(q)
        /\ heap[q].status \notin Terminal

BothBusy == \A w \in WorkerIds : worker[w].pc # "idle"

\* at most 2 jobs of the registry are processing
PoolBounded ==
    Cardinality({i \in DOMAIN jobs : heap[jobs[i].ref].status = "processing"})
        <= MaxWorkers

\* a job that waits in the queue while both threads are busy is pending
WaitingJobsStayPending ==
    BothBusy =>
        \A i \in DOMAIN queue :
            InRegistry(queue[i].job_id) =>
                JobOf(queue[i].job_id).status = "pending"

\* C6: at most 2 jobs of the registry are processing at any time, and a job
\* that waits in the queue while both threads are busy stays pending in the
\* registry.
BoundedPoolQueuesTheRest ==
    /\ PoolBounded
    /\ WaitingJobsStayPending

\* C11: get_job_result and delete_job on an id the registry does not hold
\* raise JobNotFound and change no job and no entry; get_job_result on an id
\* it holds returns that job and changes nothing.
AbsentJobNotFound ==
    [][\A job_id \in JobIds(MaxClock) :
         /\ ~InRegistry(job_id) /\ (get_job_result(job_id) \/ delete_job(job_id))
              => /\ response' = Raised("JOB_NOT_FOUND")
                 /\ jobs' = jobs
                 /\ heap' = heap
         /\ InRegistry(job_id) /\ get_job_result(job_id)
              => /\ response' = [kind |-> "job", job |-> JobOf(job_id)]
                 /\ jobs' = jobs
                 /\ heap' = heap]_vars

\* C11 happens: a call on an absent id was refused while the registry held
\* one of the two jobs created
AbsentJobSeen ==
    /\ response = Raised("JOB_NOT_FOUND")
    /\ Len(heap) = 2
    /\ Len(jobs) = 1

\* what list_jobs returned holds every job of the registry once, newest first
ListedOnceNewestFirst ==
    response.kind = "jobs" =>
        /\ Len(response.jobs) = Len(jobs)
        /\ \A i \in DOMAIN jobs :
             \E k \in DOMAIN response.jobs :
                /\ response.jobs[k] = heap[jobs[i].ref]
                /\ \A l \in DOMAIN response.jobs :
                     response.jobs[l].job_id = jobs[i].job_id => l = k
        /\ \A k, l \in DOMAIN response.jobs :
             k < l => response.jobs[k].created_at >= response.jobs[l].created_at

\* C12: list_jobs returns every job of the registry exactly once, ordered by
\* created_at descending, and leaves the registry and its jobs as they were.
ListJobsNewestFirst ==
    /\ []ListedOnceNewestFirst
    /\ [][list_jobs => jobs' = jobs /\ heap' = heap /\ queue' = queue]_vars

\* C12 happens: list_jobs returned two jobs created at different times
TwoJobsListed ==
    /\ response.kind = "jobs"
    /\ Len(response.jobs) = 2
    /\ response.jobs[1].created_at # response.jobs[2].created_at

\* the documents a run is given include one whose text cleans to nothing
HasEmptyDocument(task) ==
    LET doc_ids == IF task.document_ids = None THEN metadata
                   ELSE Get(task.document_ids)
    IN  /\ Len(doc_ids) >= 2
        /\ \A i \in DOMAIN doc_ids : doc_ids[i] \in Range(metadata)
        /\ \E i \in DOMAIN doc_ids : DocLibrary[doc_ids[i]].content = << >>

\* C13: a job whose documents (2 or more) include one that is empty after
\* cleaning is never completed by its run: the run ends it as failed.
EmptyDocumentFailsJob ==
    \A w \in WorkerIds :
        /\ worker[w].pc # "idle"
        /\ HasEmptyDocument(worker[w].task)
        /\ InRegistry(worker[w].task.job_id)
        => JobOf(worker[w].task.job_id).status # "completed"

\* C14: the failure handling of one job's run changes no other job: the
\* status and the fields it writes are those of the job that run was
\* submitted for.
FailureTouchesOwnJobOnly ==
    [][\A w \in WorkerIds :
         /\ worker[w].status = "failed"
         /\ worker'[w] # worker[w]
         => \A r \in DOMAIN heap : r # worker[w].run => heap'[r] = heap[r]]_vars

\* C15: a job that is pending or processing shows nothing of a result: its
\* pairs, matrix and document names are empty, total_comparisons is 0, and
\* statistics, error_message and completed_at are null.
NoPartialResults ==
    \A r \in DOMAIN heap :
        heap[r].status \in {"pending", "processing"} =>
            /\ heap[r].similar_pairs = << >>
            /\ heap[r].similarity_matrix = << >>
            /\ heap[r].document_names = << >>
            /\ heap[r].total_comparisons = 0
            /\ heap[r].statistics = None
            /\ heap[r].error_message = None
            /\ heap[r].completed_at = None

\* the place of a document in the features DataFrame of a call
RowOf(features_df, doc_id) ==
    CHOOSE i \in DOMAIN features_df : features_df[i].doc_id = doc_id

\* C16: with include_all_pairs false, every pair compute_pairwise_similarities
\* returns has a reported similarity that is at least the threshold.
ReturnedPairsReachThreshold ==
    response.kind = "similarities" /\ ~response.include_all_pairs =>
        \A k \in DOMAIN response.similarities :
            response.similarities[k].similarity * (ThresholdScale \div SimScale)
                >= response.threshold

\* C17: with include_all_pairs true, compute_pairwise_similarities over n >= 2
\* rows returns n(n-1)/2 pairs, one for each i < j with doc1 the row i and
\* doc2 the row j, and none of a document with itself.
AllPairsOnce ==
    response.kind = "similarities" /\ response.include_all_pairs =>
        LET df == response.features_df
            n == Len(df)
            sims == response.similarities
        IN  /\ 2 * Len(sims) = n * (n - 1)
            /\ \A i, j \in DOMAIN df :
                 i < j =>
                   Cardinality({ k \in DOMAIN sims :
                                   /\ sims[k].doc1_id = df[i].doc_id
                                   /\ sims[k].doc2_id = df[j].doc_id }) = 1
            /\ \A k \in DOMAIN sims :
                 /\ sims[k].doc1_id # sims[k].doc2_id
                 /\ sims[k].doc1_name = df[RowOf(df, sims[k].doc1_id)].filename
                 /\ sims[k].doc2_name = df[RowOf(df, sims[k].doc2_id)].filename

\* C17 happens: three rows gave three pairs
ThreePairsOfThree ==
    /\ response.kind = "similarities"
    /\ response.include_all_pairs
    /\ Len(response.features_df) = 3
    /\ Len(response.similarities) = 3

\* C18: in every returned pair flagged is true exactly when the similarity
\* stored in the pair is at least the threshold; and a pair is returned
\* exactly when include_all_pairs is true or it is flagged.
FlaggedIffStoredReachesThreshold ==
    response.kind = "similarities" =>
        LET df == response.features_df
            sims == response.similarities
        IN  /\ \A k \in DOMAIN sims :
                 sims[k].flagged <=>
                   sims[k].similarity * (ThresholdScale \div SimScale)
                       >= response.threshold
            /\ \A i, j \in DOMAIN df :
                 i < j =>
                   ((\E k \in DOMAIN sims :
                        /\ sims[k].doc1_id = df[i].doc_id
                        /\ sims[k].doc2_id = df[j].doc_id)
                    <=> \/ response.include_all_pairs
                        \/ AtLeast(cosine_similarity(df[i].features,
                                                     df[j].features),
                                   response.threshold))

\* C19: the returned pairs are sorted by similarity descending, pairs of
\* equal similarity in the order the loops made them (row-major over i < j),
\* and format_similar_pairs keeps that order.
SortedStableAndFormatted ==
    response.kind = "similarities" =>
        LET df == response.features_df
            sims == response.similarities
            pairs == response.similar_pairs
        IN  /\ \A k, l \in DOMAIN sims :
                 k < l =>
                   \/ sims[k].similarity > sims[l].similarity
                   \/ /\ sims[k].similarity = sims[l].similarity
                      /\ \/ RowOf(df, sims[k].doc1_id) < RowOf(df, sims[l].doc1_id)
                         \/ /\ sims[k].doc1_id = sims[l].doc1_id
                            /\ RowOf(df, sims[k].doc2_id) < RowOf(df, sims[l].doc2_id)
            /\ Len(pairs) = Len(sims)
            /\ \A k \in DOMAIN sims :
                 /\ pairs[k].doc1_id = sims[k].doc1_id
                 /\ pairs[k].doc2_id = sims[k].doc2_id
                 /\ pairs[k].similarity = sims[k].similarity
                 /\ pairs[k].flagged = sims[k].flagged

\* C19 happens: two pairs of equal similarity follow one of higher similarity
TieAfterHigher ==
    /\ response.kind = "similarities"
    /\ Len(response.similarities) = 3
    /\ response.similarities[1].similarity > response.similarities[2].similarity
    /\ response.similarities[2].similarity = response.similarities[3].similarity
    /\ response.similarities[3].similarity > 0

\* C20: the matrix create_similarity_matrix builds is square, has exactly 1.0
\* on its diagonal, also for a document whose vector is all zeros, and is
\* symmetric.
MatrixSquareUnitDiagonalSymmetric ==
    response.kind = "matrix" =>
        LET n == Len(response.features_df)
            matrix == response.matrix
        IN  /\ Len(matrix) = n
            /\ \A i \in 1..n : Len(matrix[i]) = n
            /\ \A i \in 1..n : matrix[i][i] = SimScale
            /\ \A i, j \in 1..n : matrix[i][j] = matrix[j][i]

\* C20 happens: a matrix of three documents, one of them without terms, two
\* of them partly alike
MatrixWithZeroVector ==
    /\ response.kind = "matrix"
    /\ Len(response.matrix) = 3
    /\ response.features_df[1].features = <<0, 0, 0>>
    /\ response.matrix[2][3] \notin {0, SimScale}

\* C21: cosine_similarity of two non-negative vectors of equal length is the
\* same in both orders and lies in [0, 1]; it is 0.0 when a vector has zero
\* norm and when no index is non-zero in both vectors.
CosineSymmetricBounded ==
    response.kind = "cosine" =>
        LET vec1 == response.vec1
            vec2 == response.vec2
        IN  /\ response.similarity = response.swapped
            /\ response.similarity.m >= 0
            /\ response.similarity.m <= ThresholdScale
            /\ response.similarity.m = ThresholdScale => response.similarity.exact
            /\ \/ \A k \in DOMAIN vec1 : vec1[k] = 0
               \/ \A k \in DOMAIN vec2 : vec2[k] = 0
               \/ \A k \in DOMAIN vec1 : vec1[k] = 0 \/ vec2[k] = 0
               => response.similarity = Zero

\* C21 happens: two vectors without a common term, and a vector of zero norm
DisjointVectorsCompared ==
    /\ response.kind = "cosine"
    /\ response.vec1 = <<1, 1, 0>>
    /\ response.vec2 = <<0, 0, 1>>
    /\ response.similarity = Zero

\* the documents a task is about, as the store has them
TaskDocuments(task) ==
    get_documents_for_analysis(metadata, task.document_ids).documents

\* C22: a run over exactly two documents with the same text, which has a
\* term that is no stop word, at threshold 0.7 produces one pair, with
\* similarity 1.0 and flagged.
IdenticalPairIsOne ==
    \A w \in WorkerIds :
        LET task == worker[w].task
            docs == TaskDocuments(task)
        IN  /\ worker[w].status = "completed"
            /\ task.config.threshold = 70000
            /\ Len(docs) = 2
            /\ docs[1].content = docs[2].content
            /\ filtered_words(docs[1].content) # << >>
            => /\ Len(worker[w].outcome.similar_pairs) = 1
               /\ worker[w].outcome.similar_pairs[1].similarity = SimScale
               /\ worker[w].outcome.similar_pairs[1].flagged

\* two of three documents have the same text, the third shares no term
TwoIdenticalOneDisjoint(docs) ==
    /\ Len(docs) = 3
    /\ docs[1].content = docs[2].content
    /\ filtered_words(docs[1].content) # << >>
    /\ filtered_words(docs[3].content) # << >>
    /\ Range(docs[1].content) \cap Range(docs[3].content) = {}

\* C23: a run over three documents, two with the same text and one sharing
\* no term with them, at threshold 0.5 with include_all_pairs false, ends
\* with exactly one pair (the identical documents), flagged_pairs = 1 and a
\* 3x3 matrix with 1.0 on the diagonal.
TwoOfThreeIdentical ==
    \A w \in WorkerIds :
        LET task == worker[w].task
            docs == TaskDocuments(task)
            out == worker[w].outcome
        IN  /\ worker[w].status = "completed"
            /\ task.config.threshold = 50000
            /\ ~task.config.include_all_pairs
            /\ TwoIdenticalOneDisjoint(docs)
            => /\ Len(out.similar_pairs) = 1
               /\ out.similar_pairs[1].doc1_id = docs[1].doc_id
               /\ out.similar_pairs[1].doc2_id = docs[2].doc_id
               /\ out.similar_pairs[1].flagged
               /\ Get(out.statistics).flagged_pairs = 1
               /\ Len(out.similarity_matrix) = 3
               /\ \A i \in 1..3 : /\ Len(out.similarity_matrix[i]) = 3
                                  /\ out.similarity_matrix[i][i] = SimScale

\* C23 happens: the run over the three documents has ended and its result
\* is written to the job
TwoOfThreeCompleted ==
    \E w \in WorkerIds :
        /\ worker[w].status = "completed"
        /\ worker[w].pc = "kwargs"
        /\ TwoIdenticalOneDisjoint(TaskDocuments(worker[w].task))
        /\ Len(worker[w].outcome.similar_pairs) = 1

\* C24: for every pair list given to compute_statistics, flagged_pairs is
\* the number of pairs whose flagged is true; for a non-empty list
\* min_similarity <= avg_similarity <= max_similarity, min and max being the
\* smallest and the largest similarity of the list; for the empty list
\* flagged_pairs, avg, max and min are all 0.
StatisticsOfPairList ==
    response.kind = "statistics" =>
        LET pairs == response.similarities
            st == response.statistics
        IN  /\ st.flagged_pairs =
                   Cardinality({ k \in DOMAIN pairs : pairs[k].flagged })
            /\ pairs # << >> =>
                 /\ st.min_similarity <= st.avg_similarity
                 /\ st.avg_similarity <= st.max_similarity
                 /\ \E k \in DOMAIN pairs : pairs[k].similarity = st.min_similarity
                 /\ \E k \in DOMAIN pairs : pairs[k].similarity = st.max_similarity
                 /\ \A k \in DOMAIN pairs :
                      /\ st.min_similarity <= pairs[k].similarity
                      /\ pairs[k].similarity <= st.max_similarity
            /\ pairs = << >> =>
                 /\ st.flagged_pairs = 0
                 /\ st.avg_similarity = 0
                 /\ st.max_similarity = 0
                 /\ st.min_similarity = 0

\* C24 happens: statistics of a list whose smallest similarity is not first
\* and in which one of three pairs is flagged
StatisticsOfMixedList ==
    /\ response.kind = "statistics"
    /\ Len(response.similarities) = 3
    /\ response.similarities[1].similarity = SimScale
    /\ response.similarities[3].similarity = 0
    /\ response.statistics.flagged_pairs = 1
    /\ response.statistics.min_similarity < response.statistics.avg_similarity
    /\ response.statistics.avg_similarity < response.statistics.max_similarity

\* C25: the total_comparisons a completed run writes to the job, and the one
\* in its statistics, is the number of pairs compared, n(n-1)/2 for the n
\* documents compared, whether include_all_pairs is set or not.
TotalComparisonsCountsAllPairs ==
    \A w \in WorkerIds :
        worker[w].status = "completed" =>
            LET out == worker[w].outcome
                n == Len(out.similarity_matrix)
            IN  /\ 2 * out.total_comparisons = n * (n - 1)
                /\ 2 * Get(out.statistics).total_comparisons = n * (n - 1)

\* C26: a registry entry stays, with the job object it holds, through every
\* step that is not a delete_job of its id: no creation, read or update of a
\* worker removes a job or puts another object in its place.
OnlyDeleteRemovesOrReplaces ==
    [][\A i \in DOMAIN jobs :
         \/ \E j \in DOMAIN jobs' : jobs'[j] = jobs[i]
         \/ /\ response'.kind = "deleted"
            /\ response'.job_id = jobs[i].job_id]_vars

\* C28: no two job objects ever created carry the same job id, so no
\* creation stores its job under the key of an earlier one.
JobIdsAreUnique ==
    \A a, b \in DOMAIN heap : heap[a].job_id = heap[b].job_id => a = b

\* C27: in the result of every completed run the matrix has as many rows as
\* there are documents: the number of rows, the length of every row, the
\* number of document names, total_documents and statistics.total_documents
\* are the same number.
MatrixDimensionIsDocumentCount ==
    \A w \in WorkerIds :
        worker[w].status = "completed" =>
            LET out == worker[w].outcome
            IN  /\ Len(out.similarity_matrix) = Len(out.document_names)
                /\ Len(out.similarity_matrix) = out.total_documents
                /\ Get(out.statistics).total_documents = out.total_documents
                /\ \A i \in DOMAIN out.similarity_matrix :
                     Len(out.similarity_matrix[i]) = out.total_documents

\* C29: once a job is deleted, every step its run still takes is dropped
\* quietly: the step does not raise from the lookup self._jobs[job_id], does
\* not change the registry and does not change the object of another job.
DeletedJobUpdatesDropped ==
    [][\A w \in WorkerIds :
         /\ worker[w].pc # "idle"
         /\ worker'[w] # worker[w]
         /\ ~InRegistry(worker[w].task.job_id)
         => /\ worker[w].pc # "fetch"
            /\ jobs' = jobs
            /\ \A r \in DOMAIN heap :
                 heap[r].job_id # worker[w].task.job_id => heap'[r] = heap[r]]_vars

\* C30: a job created for all documents keeps the document set it was
\* validated with: its total_documents never changes after creation and its
\* run never finds fewer than two documents, whatever is uploaded or
\* deleted before the pipeline starts.
DocumentSetFixedAtCreation ==
    /\ [](\A w \in WorkerIds :
            worker[w].outcome.error_message # "INSUFFICIENT_DOCUMENTS")
    /\ [][\A r \in DOMAIN heap :
            heap'[r].total_documents = heap[r].total_documents]_vars

====
